---- MODULE Spec2Model ----
(***************************************************************************)
(* Model of the JIT validator's host-I/O bridge, arbitrator/jit/src/       *)
(* wavmio.rs: the seven wavmio host calls and the lazy fork-and-bootstrap  *)
(* protocol ready_hostio.                                                  *)
(*                                                                         *)
(* A u64 is kept at its full width as four 16-bit limbs, most significant  *)
(* first, because TLC's integers are 32 bits wide: <<0,0,0,5>> is 5,       *)
(* <<0,1,0,0>> is 2^32 and <<65535,65535,65535,65535>> is 2^64-1.          *)
(***************************************************************************)
EXTENDS Integers, Sequences, FiniteSets, TLC

(***************************************************************************)
(* Bounds of the model.                                                    *)
(***************************************************************************)
\* Host calls issued by all guests together.
MaxCalls == 2
\* Children the pre-fork process may fork.
MaxChildren == 2
\* Bytes of guest linear memory.
MemorySize == 72

(***************************************************************************)
(* Program constants.                                                      *)
(***************************************************************************)
\* The fixed transfer size of Bytes32, of an inbox chunk and of a preimage chunk.
ChunkSize == 32

(***************************************************************************)
(* 64-bit words.                                                           *)
(***************************************************************************)
Limb == 2^16

\* The u64 whose value is the natural number n (n < 2^31).
W(n) == <<0, 0, n \div Limb, n % Limb>>

Two32 == <<0, 1, 0, 0>>
MaxU32 == <<0, 0, Limb - 1, Limb - 1>>
MaxU64 == <<Limb - 1, Limb - 1, Limb - 1, Limb - 1>>

\* u32::try_from(w).is_ok()
FitsU32(w) == w[1] = 0 /\ w[2] = 0

\* `w as u32 as usize`: the low 32 bits, zero-extended.
AsU32(w) == <<0, 0, w[3], w[4]>>

\* Whether a usize is below 2^31, and then its value as a number.
IsSmall(w) == w[1] = 0 /\ w[2] = 0 /\ w[3] < Limb \div 2
Val(w) == w[3] * Limb + w[4]

\* a + b on u64: the wrapped sum and whether it overflowed.
AddU64(a, b) ==
    LET s4 == a[4] + b[4]
        s3 == a[3] + b[3] + (s4 \div Limb)
        s2 == a[2] + b[2] + (s3 \div Limb)
        s1 == a[1] + b[1] + (s2 \div Limb)
    IN  [val |-> <<s1 % Limb, s2 % Limb, s3 % Limb, s4 % Limb>>,
         overflow |-> s1 \div Limb > 0]

\* a < b on u64.
LtU64(a, b) ==
    \/ a[1] < b[1]
    \/ a[1] = b[1] /\ a[2] < b[2]
    \/ a[1] = b[1] /\ a[2] = b[2] /\ a[3] < b[3]
    \/ a[1] = b[1] /\ a[2] = b[2] /\ a[3] = b[3] /\ a[4] < b[4]

Min(a, b) == IF a < b THEN a ELSE b

\* usize::saturating_sub(len, offset) for a length below 2^31.
SaturatingSub(len, offset) ==
    IF IsSmall(offset) /\ Val(offset) <= len THEN len - Val(offset) ELSE 0

(***************************************************************************)
(* Byte strings.                                                           *)
(***************************************************************************)
\* n bytes that differ from position to position and from tag to tag.
Bytes(tag, n) == [i \in 1..n |-> (tag * 37 + i * 3) % 256]
B32(tag) == Bytes(tag, ChunkSize)

\* slice.get(from..from+len).unwrap_or_default()
SliceGet(s, from, len) ==
    IF from + len <= Len(s) THEN SubSeq(s, from + 1, from + len) ELSE <<>>

\* A map with key k set to v (BTreeMap::insert).
Insert(m, k, v) == [x \in (DOMAIN m) \cup {k} |-> IF x = k THEN v ELSE m[x]]
EmptyMap == [x \in {} |-> <<>>]

(***************************************************************************)
(* Session State (WasmEnv) and the guest's stack and memory (GoStack).     *)
(***************************************************************************)
\* What a host call hands back: the Session State and guest memory it leaves,
\* how it ended ("ok", "hostio" = Escape::hostio, "exit" = Escape::exit(0),
\* "panic"), the kind of failure, the words written with sp.write_u64 as
\* <<slot, value>> pairs and the sp.write_slice calls as <<ptr, bytes>> pairs.
Ret(e, m, result, err, out, writes) ==
    [env |-> e, mem |-> m, result |-> result, err |-> err, out |-> out,
     writes |-> writes]

Ok(e, m, out, writes) == Ret(e, m, "ok", "none", out, writes)
Hostio(e, m, kind) == Ret(e, m, "hostio", kind, <<>>, <<>>)
Panic(e, m) == Ret(e, m, "panic", "panic", <<>>, <<>>)

\* sp.read_u64(k): argument word k of the call frame.
sp_read_u64(a, k) == a[k + 1]

\* sp.memory_size()
sp_memory_size == W(MemorySize)

\* Whether len bytes at ptr lie inside guest memory.
InMemory(ptr, len) == IsSmall(ptr) /\ Val(ptr) + len <= MemorySize

\* sp.read_slice(ptr, len) of a range inside memory.
sp_read_slice(m, ptr, len) == SubSeq(m, Val(ptr) + 1, Val(ptr) + len)

\* sp.write_slice(ptr, bytes) of a range inside memory.
sp_write_slice(m, ptr, bytes) ==
    [i \in 1..Len(m) |->
        IF i > Val(ptr) /\ i <= Val(ptr) + Len(bytes) THEN bytes[i - Val(ptr)]
        ELSE m[i]]

\* The slot a guest index word addresses: `sp.read_u64(0) as u32 as usize`.
SlotIndex(w) == AsU32(w)

\* Vec::get / Vec::get_mut: whether the index is inside the vector.
HasSlot(v, idx) == IsSmall(idx) /\ Val(idx) < Len(v)
Slot(v, idx) == v[Val(idx) + 1]
SetSlot_OffByOne(v, idx, x) == [v EXCEPT ![Len(v) - Val(idx)] = x]
\* `*global = value` through get_mut.
SetSlot(v, idx, x) == [v EXCEPT ![Val(idx) + 1] = x]

\* BTreeMap::get / HashMap::get: whether the key is present, and its value.
Lookup_Default(map, key) ==
    [found |-> TRUE, value |-> IF key \in DOMAIN map THEN map[key] ELSE <<>>]
Lookup(map, key) ==
    IF key \in DOMAIN map THEN [found |-> TRUE, value |-> map[key]]
    ELSE [found |-> FALSE, value |-> <<>>]

\* The fixed-size length test of the set, inbox and preimage calls.
NotChunkSize_Long(len) == LtU64(W(ChunkSize), len)
NotChunkSize(len) == len # W(ChunkSize)

ChunkLen_NoOffset(len, offset) == Min(ChunkSize, len)
\* std::cmp::min(32, bytes.len().saturating_sub(offset))
ChunkLen(len, offset) == Min(ChunkSize, SaturatingSub(len, offset))

Chunk_NoClamp(bytes, offset) ==
    IF IsSmall(offset) THEN SliceGet(bytes, Val(offset), ChunkSize) ELSE <<>>
\* bytes.get(offset..(offset + len)).unwrap_or_default() for a u32 offset.
Chunk(bytes, offset) ==
    LET len == ChunkLen(Len(bytes), offset)
    IN  IF IsSmall(offset) THEN SliceGet(bytes, Val(offset), len) ELSE <<>>

(***************************************************************************)
(* The global state accessors.  Each operator is the body of the host call *)
(* after its ready_hostio line.                                            *)
(***************************************************************************)
get_global_state_bytes32(e, m, a) ==
    LET global == SlotIndex(sp_read_u64(a, 0))
        out_ptr == sp_read_u64(a, 1)
        out_len == IF LtU64(sp_read_u64(a, 2), W(ChunkSize))
                   THEN Val(sp_read_u64(a, 2)) ELSE ChunkSize
    IN  IF ~HasSlot(e.large_globals, global) THEN Hostio(e, m, "GlobalOutOfBounds")
        ELSE LET bytes == SubSeq(Slot(e.large_globals, global), 1, out_len)
             IN  IF ~InMemory(out_ptr, out_len) THEN Panic(e, m)
                 ELSE Ok(e, sp_write_slice(m, out_ptr, bytes), <<>>,
                         << <<out_ptr, bytes>> >>)

set_global_state_bytes32(e, m, a) ==
    LET global == SlotIndex(sp_read_u64(a, 0))
        src_ptr == sp_read_u64(a, 1)
        src_len == sp_read_u64(a, 2)
    IN  IF NotChunkSize(src_len) THEN Ok(e, m, <<>>, <<>>)
        ELSE IF ~InMemory(src_ptr, ChunkSize) THEN Panic(e, m)
        ELSE IF ~HasSlot(e.large_globals, global)
             THEN Hostio(e, m, "GlobalOutOfBounds")
        ELSE Ok([e EXCEPT !.large_globals =
                    SetSlot(@, global, sp_read_slice(m, src_ptr, ChunkSize))],
                m, <<>>, <<>>)

get_global_state_u64(e, m, a) ==
    LET global == SlotIndex(sp_read_u64(a, 0))
    IN  IF ~HasSlot(e.small_globals, global) THEN Hostio(e, m, "GlobalOutOfBounds")
        ELSE Ok(e, m, << <<1, Slot(e.small_globals, global)>> >>, <<>>)

set_global_state_u64_MovesTooFar(e, m, a) ==
    LET global == SlotIndex(sp_read_u64(a, 0))
    IN  IF ~HasSlot(e.small_globals, global) THEN Hostio(e, m, "GlobalOutOfBounds")
        ELSE Ok([e EXCEPT !.small_globals = SetSlot(@, global, sp_read_u64(a, 1)),
                          !.first_too_far = sp_read_u64(a, 1)],
                m, <<>>, <<>>)

set_global_state_u64(e, m, a) ==
    LET global == SlotIndex(sp_read_u64(a, 0))
    IN  IF ~HasSlot(e.small_globals, global) THEN Hostio(e, m, "GlobalOutOfBounds")
        ELSE Ok([e EXCEPT !.small_globals = SetSlot(@, global, sp_read_u64(a, 1))],
                m, <<>>, <<>>)

(***************************************************************************)
(* The inbox reader and the preimage oracle.                               *)
(***************************************************************************)
AbsentKind_Inclusive(msg_num, too_far) ==
    IF ~LtU64(too_far, msg_num) THEN "MissingMessage" ELSE "MessageTooFar"
\* The failure for a message missing from the map: `match msg_num < too_far`.
AbsentKind(msg_num, too_far) ==
    IF LtU64(msg_num, too_far) THEN "MissingMessage" ELSE "MessageTooFar"

\* `out_ptr + 32 > sp.memory_size()`; checked is whether the build traps on
\* integer overflow (it panics) or wraps.
inbox_message_impl(e, m, a, inbox, checked) ==
    LET msg_num == sp_read_u64(a, 0)
        offset == sp_read_u64(a, 1)
        out_ptr == sp_read_u64(a, 2)
        out_len == sp_read_u64(a, 3)
        message == Lookup(inbox, msg_num)
        end == AddU64(out_ptr, W(ChunkSize))
        read == Chunk(message.value, offset)
    IN  IF NotChunkSize(out_len) THEN Ok(e, m, << <<5, W(0)>> >>, <<>>)
        ELSE IF ~message.found
             THEN Hostio(e, m, AbsentKind(msg_num, e.first_too_far))
        ELSE IF end.overflow /\ checked THEN Panic(e, m)
        ELSE IF LtU64(sp_memory_size, end.val) THEN Hostio(e, m, "UnknownMessageType")
        ELSE IF ~FitsU32(offset) THEN Hostio(e, m, "BadOffset")
        ELSE IF ~InMemory(out_ptr, Len(read)) THEN Panic(e, m)
        ELSE Ok(e, sp_write_slice(m, out_ptr, read), << <<5, W(Len(read))>> >>,
                << <<out_ptr, read>> >>)

resolve_preimage(e, m, a) ==
    LET hash_ptr == sp_read_u64(a, 0)
        hash_len == sp_read_u64(a, 1)
        offset == sp_read_u64(a, 3)
        out_ptr == sp_read_u64(a, 4)
        out_len == sp_read_u64(a, 5)
    IN  IF NotChunkSize(hash_len) \/ NotChunkSize(out_len)
        THEN Ok(e, m, << <<7, W(0)>> >>, <<>>)
        ELSE IF ~InMemory(hash_ptr, ChunkSize) THEN Panic(e, m)
        ELSE LET preimage == Lookup(e.preimages, sp_read_slice(m, hash_ptr, ChunkSize))
                 read == Chunk(preimage.value, offset)
             IN  IF ~preimage.found THEN Hostio(e, m, "MissingPreimage")
                 ELSE IF ~FitsU32(offset) THEN Hostio(e, m, "BadOffset")
                 ELSE IF ~InMemory(out_ptr, Len(read)) THEN Panic(e, m)
                 ELSE Ok(e, sp_write_slice(m, out_ptr, read),
                         << <<7, W(Len(read))>> >>, << <<out_ptr, read>> >>)

(***************************************************************************)
(* The bootstrap wire format: big-endian u64, raw 32 bytes, one-byte       *)
(* flags and length-prefixed messages, read from the controller's stream s *)
(* at byte position pos.  A read past the end of the stream is an I/O      *)
(* failure.                                                                *)
(***************************************************************************)
Take(s, pos, n) ==
    IF pos + n <= Len(s)
    THEN [ok |-> TRUE, val |-> SubSeq(s, pos + 1, pos + n), pos |-> pos + n]
    ELSE [ok |-> FALSE, val |-> <<>>, pos |-> pos]

socket_read_u8(s, pos) ==
    LET r == Take(s, pos, 1)
    IN  [ok |-> r.ok, val |-> IF r.ok THEN r.val[1] ELSE 0, pos |-> r.pos]

socket_read_u64(s, pos) ==
    LET r == Take(s, pos, 8)
        b == r.val
    IN  [ok |-> r.ok,
         val |-> IF r.ok
                 THEN <<b[1] * 256 + b[2], b[3] * 256 + b[4],
                        b[5] * 256 + b[6], b[7] * 256 + b[8]>>
                 ELSE W(0),
         pos |-> r.pos]

socket_read_bytes32(s, pos) == Take(s, pos, ChunkSize)

socket_read_bytes(s, pos) ==
    LET size == socket_read_u64(s, pos)
    IN  IF size.ok /\ IsSmall(size.val) THEN Take(s, size.pos, Val(size.val))
        ELSE [ok |-> FALSE, val |-> <<>>, pos |-> pos]

\* What the controller writes for one session.
PutU64(w) ==
    <<w[1] \div 256, w[1] % 256, w[2] \div 256, w[2] % 256,
      w[3] \div 256, w[3] % 256, w[4] \div 256, w[4] % 256>>

RECURSIVE PutMessages(_)
PutMessages(msgs) ==
    IF msgs = <<>> THEN <<0>>
    ELSE <<1>> \o PutU64(W(Len(Head(msgs)))) \o Head(msgs) \o PutMessages(Tail(msgs))

Wire(d) ==
    PutU64(d.inbox_position) \o PutU64(d.position_within_message)
        \o d.last_block_hash \o d.last_send_root \o PutU64(d.delayed_position)
        \o PutMessages(d.sequencer) \o PutMessages(d.delayed)

(***************************************************************************)
(* ready_hostio from the connected socket on (lines 227-254).              *)
(***************************************************************************)
ClearInbox_Keep(inbox) == inbox
\* env.sequencer_messages.clear() / env.delayed_messages.clear()
ClearInbox(inbox) == EmptyMap

\* One `while socket::read_u8(stream)? == 1 { ... }` loop: the map it builds,
\* the stream position it stops at and how it stopped.
RECURSIVE ReadMessages(_, _, _, _, _)
ReadMessages(inbox, s, pos, position, checked) ==
    LET flag == socket_read_u8(s, pos)
        message == socket_read_bytes(s, flag.pos)
        next == AddU64(position, W(1))
    IN  IF ~flag.ok THEN [how |-> "io", inbox |-> inbox, pos |-> pos]
        ELSE IF flag.val # 1 THEN [how |-> "done", inbox |-> inbox, pos |-> flag.pos]
        ELSE IF ~message.ok THEN [how |-> "io", inbox |-> inbox, pos |-> pos]
        ELSE IF next.overflow /\ checked
             THEN [how |-> "panic", inbox |-> Insert(inbox, position, message.val),
                   pos |-> message.pos]
        ELSE ReadMessages(Insert(inbox, position, message.val), s, message.pos,
                          next.val, checked)

\* How ready_hostio ends when a read of the stream fails (the `?` operator)
\* or an addition overflows, with the Session State it has reached.
Fail(e, how) ==
    [env |-> e, result |-> IF how = "panic" THEN "panic" ELSE "hostio",
     err |-> IF how = "panic" THEN "BootstrapOverflow" ELSE "BootstrapIOFailure"]

\* Lines 252-254.
keep_socket(e, port) ==
    [env |-> [e EXCEPT !.socket = port, !.forks = FALSE], result |-> "ok",
     err |-> "none"]

\* Lines 246-250: the delayed stream.
read_delayed_messages(e, port, s, pos, delayed_position, checked) ==
    LET del == ReadMessages(e.delayed_messages, s, pos, delayed_position, checked)
    IN  IF del.how # "done"
        THEN Fail([e EXCEPT !.delayed_messages = del.inbox], del.how)
        ELSE keep_socket([e EXCEPT !.delayed_messages = del.inbox], port)

\* Lines 241-245: the sequencer stream.
read_sequencer_messages(e, port, s, pos, inbox_position, delayed_position, checked) ==
    LET seq == ReadMessages(e.sequencer_messages, s, pos, inbox_position, checked)
    IN  IF seq.how # "done"
        THEN Fail([e EXCEPT !.sequencer_messages = seq.inbox], seq.how)
        ELSE read_delayed_messages([e EXCEPT !.sequencer_messages = seq.inbox],
                                   port, s, seq.pos, delayed_position, checked)

\* Lines 239-240: the delayed position.
read_delayed_position(e, port, s, pos, inbox_position, checked) ==
    LET delayed_position == socket_read_u64(s, pos)
    IN  IF ~delayed_position.ok THEN Fail(e, "io")
        ELSE read_sequencer_messages(e, port, s, delayed_position.pos,
                                     inbox_position, delayed_position.val, checked)

set_globals_Swapped(e, inbox_position, position_within_message, last_block_hash, last_send_root) ==
    [e EXCEPT !.small_globals = <<position_within_message, inbox_position>>,
              !.large_globals = <<last_send_root, last_block_hash>>,
              !.sequencer_messages = ClearInbox(@),
              !.delayed_messages = ClearInbox(@)]
set_globals_Stale(e, inbox_position, position_within_message, last_block_hash, last_send_root) ==
    [e EXCEPT !.sequencer_messages = ClearInbox(@), !.delayed_messages = ClearInbox(@)]
\* Lines 232-236: the globals are replaced and both inboxes cleared.
set_globals(e, inbox_position, position_within_message, last_block_hash, last_send_root) ==
    [e EXCEPT !.small_globals = <<inbox_position, position_within_message>>,
              !.large_globals = <<last_block_hash, last_send_root>>,
              !.sequencer_messages = ClearInbox(@),
              !.delayed_messages = ClearInbox(@)]

\* Line 230.
read_last_send_root(e, port, s, pos, inbox_position, position_within_message, last_block_hash, checked) ==
    LET last_send_root == socket_read_bytes32(s, pos)
    IN  IF ~last_send_root.ok THEN Fail(e, "io")
        ELSE read_delayed_position(
                 set_globals(e, inbox_position, position_within_message,
                             last_block_hash, last_send_root.val),
                 port, s, last_send_root.pos, inbox_position, checked)

\* Line 229.
read_last_block_hash(e, port, s, pos, inbox_position, position_within_message, checked) ==
    LET last_block_hash == socket_read_bytes32(s, pos)
    IN  IF ~last_block_hash.ok THEN Fail(e, "io")
        ELSE read_last_send_root(e, port, s, last_block_hash.pos, inbox_position,
                                 position_within_message, last_block_hash.val,
                                 checked)

\* Line 228.
read_position_within_message(e, port, s, pos, inbox_position, checked) ==
    LET position_within_message == socket_read_u64(s, pos)
    IN  IF ~position_within_message.ok THEN Fail(e, "io")
        ELSE read_last_block_hash(e, port, s, position_within_message.pos,
                                  inbox_position, position_within_message.val,
                                  checked)

\* The Session State ready_hostio leaves and how it ended, for the stream s
\* the connection to `port` delivers (from line 227 on).
Bootstrap(e, port, s, checked) ==
    LET inbox_position == socket_read_u64(s, 0)
    IN  IF ~inbox_position.ok THEN Fail(e, "io")
        ELSE read_position_within_message(e, port, s, inbox_position.pos,
                                          inbox_position.val, checked)

(***************************************************************************)
(* Inputs: what the guest passes in a call frame and what the controller   *)
(* sends for a session.                                                    *)
(***************************************************************************)
CallNames ==
    {"getGlobalStateBytes32", "setGlobalStateBytes32", "getGlobalStateU64",
     "setGlobalStateU64", "readInboxMessage", "readDelayedInboxMessage",
     "resolvePreimage"}

\* Slot indices: the two slots, the first index past them, and 2^32.
Slots == {W(0), W(1), W(2), Two32}
\* Pointers: the bottom of memory, the last place 32 bytes fit, one past it,
\* and 2^64 - 32.
LastPtr == W(MemorySize - ChunkSize)
PastPtr == W(MemorySize - ChunkSize + 1)
TopPtr == <<Limb - 1, Limb - 1, Limb - 1, Limb - ChunkSize>>
Ptrs == {W(0), LastPtr, PastPtr}
\* Pointer and declared length of a 32-byte transfer.
PtrLens ==
    {<<W(0), W(ChunkSize)>>, <<LastPtr, W(ChunkSize)>>, <<PastPtr, W(ChunkSize)>>,
     <<W(0), W(8)>>}
Offsets == {W(0), W(ChunkSize), W(40), MaxU32, Two32}
MsgNums == {W(10), W(11), W(12)}
Values == {W(7), MaxU64}

Frame(n, a0, a1, a2, a3, a4, a5) == [name |-> n, args |-> <<a0, a1, a2, a3, a4, a5>>]

\* The frames a guest of the stand-alone process (forks false from the
\* start) may pass.
Frames ==
    {Frame("getGlobalStateBytes32", g, d[1], d[2], W(0), W(0), W(0)) :
        g \in Slots, d \in PtrLens \cup {<<LastPtr, W(ChunkSize + 1)>>, <<PastPtr, W(8)>>}}
    \cup {Frame("setGlobalStateBytes32", g, d[1], d[2], W(0), W(0), W(0)) :
        g \in Slots, d \in PtrLens}
    \cup {Frame("getGlobalStateU64", g, W(0), W(0), W(0), W(0), W(0)) : g \in Slots}
    \cup {Frame("setGlobalStateU64", g, v, W(0), W(0), W(0), W(0)) :
        g \in Slots, v \in Values}
    \cup {Frame("readInboxMessage", i, o, p, W(ChunkSize), W(0), W(0)) :
        i \in MsgNums, o \in Offsets, p \in {LastPtr, PastPtr, TopPtr}}
    \cup {Frame("readDelayedInboxMessage", i, o, p, W(ChunkSize), W(0), W(0)) :
        i \in MsgNums, o \in {W(0), Two32}, p \in {W(0), PastPtr}}
    \cup {Frame("readInboxMessage", W(10), W(0), W(0), W(8), W(0), W(0))}
    \cup {Frame(n, W(12), W(0), PastPtr, W(8), W(0), W(0)) :
        n \in {"readInboxMessage", "readDelayedInboxMessage"}}
    \cup {Frame("resolvePreimage", h, W(ChunkSize), W(0), o, p, W(ChunkSize)) :
        h \in Ptrs, o \in Offsets, p \in {LastPtr, PastPtr}}
    \cup {Frame("resolvePreimage", h, l[1], W(0), W(0), W(0), l[2]) :
        h \in {W(0), LastPtr},
        l \in {<<W(8), W(ChunkSize)>>, <<W(ChunkSize), W(8)>>}}

\* The frames a guest of a forking process and of its children may pass.
ForkFrames ==
    {Frame("getGlobalStateU64", W(0), W(0), W(0), W(0), W(0), W(0)),
     Frame("setGlobalStateBytes32", W(1), W(0), W(ChunkSize), W(0), W(0), W(0)),
     Frame("readInboxMessage", W(10), W(ChunkSize), LastPtr, W(ChunkSize), W(0), W(0)),
     Frame("readDelayedInboxMessage", W(10), W(0), LastPtr, W(ChunkSize), W(0), W(0)),
     Frame("resolvePreimage", W(0), W(ChunkSize), W(0), W(ChunkSize), LastPtr,
           W(ChunkSize)),
     Frame("resolvePreimage", LastPtr, W(ChunkSize), W(0), Two32, LastPtr,
           W(ChunkSize))}

\* Sessions the controller may serve: one with two sequencer and two delayed
\* messages (the last one empty), and one with no sequencer message whose
\* delayed stream starts at the last u64.
Sessions ==
    {[inbox_position |-> W(10), position_within_message |-> W(1),
      last_block_hash |-> B32(3), last_send_root |-> B32(4),
      delayed_position |-> W(11),
      sequencer |-> <<Bytes(20, 40), Bytes(21, 5)>>,
      delayed |-> <<Bytes(22, 32), Bytes(25, 0)>>],
     [inbox_position |-> W(12), position_within_message |-> W(0),
      last_block_hash |-> B32(5), last_send_root |-> B32(1),
      delayed_position |-> MaxU64,
      sequencer |-> <<>>, delayed |-> <<Bytes(24, 33)>>]}

NoSession ==
    [inbox_position |-> W(0), position_within_message |-> W(0),
     last_block_hash |-> <<>>, last_send_root |-> <<>>, delayed_position |-> W(0),
     sequencer |-> <<>>, delayed |-> <<>>]

\* What the controller writes for each session.
WireOf == [d \in Sessions |-> Wire(d)]

\* Where the connection may break: inside the preamble, inside each stream,
\* or not at all.
Cuts(wire) == {20, 100, Len(wire)} \cap 0..Len(wire)

(***************************************************************************)
(* The state.                                                              *)
(***************************************************************************)
Procs == 0..MaxChildren

VARIABLES
    pc,        \* where each process is: "none" (not forked yet), "guest",
               \* "read_line" (ready_hostio line 205), "connect" (line 221),
               \* "failed", "panicked", "exited"
    env,       \* each process's WasmEnv
    mem,       \* each process's guest memory
    frame,     \* each process's current or last host call
    port,      \* each process's `port` string in ready_hostio
    stdin,     \* the lines the controller has yet to be read from stdin
    session,   \* what the controller sent on each process's connection
    ncalls     \* host calls issued so far

vars == <<pc, env, mem, frame, port, stdin, session, ncalls>>

NoFrame ==
    [name |-> "none", args |-> <<>>, seq |-> 0, result |-> "none", err |-> "none",
     out |-> <<>>, writes |-> <<>>]

InitEnv(forks) ==
    [forks |-> forks,
     small_globals |-> <<W(10), W(0)>>,
     large_globals |-> <<B32(3), B32(4)>>,
     sequencer_messages |-> Insert(Insert(EmptyMap, W(9), Bytes(26, 33)),
                                   W(10), Bytes(20, 40)),
     delayed_messages |-> Insert(EmptyMap, W(11), Bytes(22, 32)),
     preimages |-> Insert(Insert(Insert(Insert(EmptyMap,
                       B32(1), Bytes(9, 40)), B32(3), Bytes(10, 64)),
                       B32(4), <<>>), B32(5), Bytes(11, 33)),
     first_too_far |-> W(12),
     socket |-> "None"]

InitMem == B32(1) \o Bytes(2, MemorySize - ChunkSize)

\* The placeholders of a process not forked yet.
NoEnv ==
    [forks |-> TRUE, small_globals |-> <<>>, large_globals |-> <<>>,
     sequencer_messages |-> EmptyMap, delayed_messages |-> EmptyMap,
     preimages |-> EmptyMap, first_too_far |-> W(0), socket |-> "None"]
NoMem == <<>>

Init ==
    /\ \E forks \in BOOLEAN :
        /\ env = [p \in Procs |-> IF p = 0 THEN InitEnv(forks) ELSE NoEnv]
        /\ stdin \in IF forks THEN {<<>>, <<"8001", "8002">>} ELSE {<<>>}
    /\ pc = [p \in Procs |-> IF p = 0 THEN "guest" ELSE "none"]
    /\ mem = [p \in Procs |-> IF p = 0 THEN InitMem ELSE NoMem]
    /\ frame = [p \in Procs |-> NoFrame]
    /\ port = [p \in Procs |-> ""]
    /\ session = [p \in Procs |-> NoSession]
    /\ ncalls = 0

(***************************************************************************)
(* Host calls.                                                             *)
(***************************************************************************)
\* Whether the host call starts with `ready_hostio(&mut *env)?`.
CallsReadyHostio(name) == name # "resolvePreimage"

\* The body of host call f on Session State e and memory m.
Serve(f, e, m, checked) ==
    CASE f.name = "getGlobalStateBytes32" -> get_global_state_bytes32(e, m, f.args)
      [] f.name = "setGlobalStateBytes32" -> set_global_state_bytes32(e, m, f.args)
      [] f.name = "getGlobalStateU64" -> get_global_state_u64(e, m, f.args)
      [] f.name = "setGlobalStateU64" -> set_global_state_u64(e, m, f.args)
      [] f.name = "readInboxMessage" ->
            inbox_message_impl(e, m, f.args, e.sequencer_messages, checked)
      [] f.name = "readDelayedInboxMessage" ->
            inbox_message_impl(e, m, f.args, e.delayed_messages, checked)
      [] f.name = "resolvePreimage" -> resolve_preimage(e, m, f.args)

\* The builds to consider for a call: only the inbox reader adds u64s.
Builds(f) ==
    IF f.name \in {"readInboxMessage", "readDelayedInboxMessage"} THEN BOOLEAN
    ELSE {TRUE}

\* A process forked from, or still waiting to fork in, a forking image.
ForkMode(p) == env[p].forks \/ env[p].socket # "None"
CallsOf(p) == IF ForkMode(p) THEN ForkFrames ELSE Frames

PcAfter_HostioResumes(result) ==
    CASE result \in {"ok", "hostio"} -> "guest"
      [] result = "panic" -> "panicked"
      [] result = "exit" -> "exited"
PcAfter(result) ==
    CASE result = "ok" -> "guest"
      [] result = "hostio" -> "failed"
      [] result = "panic" -> "panicked"
      [] result = "exit" -> "exited"

Done(f, seq, r) ==
    [name |-> f.name, args |-> f.args, seq |-> seq, result |-> r.result,
     err |-> r.err, out |-> r.out, writes |-> r.writes]

\* A host call that does not block: ready_hostio returns at once (forks is
\* false) or is not called, and the body runs.
HostCall(p, calls) ==
    /\ pc[p] = "guest"
    /\ ncalls < MaxCalls
    /\ \E f \in calls : \E checked \in Builds(f) :
        /\ ~(CallsReadyHostio(f.name) /\ env[p].forks)
        /\ LET r == Serve(f, env[p], mem[p], checked)
           IN  /\ env' = [env EXCEPT ![p] = r.env]
               /\ mem' = [mem EXCEPT ![p] = r.mem]
               /\ frame' = [frame EXCEPT ![p] = Done(f, ncalls + 1, r)]
               /\ pc' = [pc EXCEPT ![p] = PcAfter(r.result)]
    /\ ncalls' = ncalls + 1
    /\ UNCHANGED <<port, stdin, session>>

EnterReadyHostio_Always(p, calls) ==
    /\ pc[p] = "guest"
    /\ ncalls < MaxCalls
    /\ \E f \in calls :
        /\ CallsReadyHostio(f.name)
        /\ frame' = [frame EXCEPT ![p] =
                        [name |-> f.name, args |-> f.args, seq |-> ncalls + 1,
                         result |-> "pending", err |-> "none", out |-> <<>>,
                         writes |-> <<>>]]
    /\ pc' = [pc EXCEPT ![p] = "read_line"]
    /\ port' = [port EXCEPT ![p] = ""]
    /\ ncalls' = ncalls + 1
    /\ UNCHANGED <<env, mem, stdin, session>>

\* A host call that enters ready_hostio with forks true: it creates the empty
\* port string and waits in stdin.read_line.
EnterReadyHostio(p, calls) ==
    /\ pc[p] = "guest"
    /\ ncalls < MaxCalls
    /\ env[p].forks
    /\ \E f \in calls :
        /\ CallsReadyHostio(f.name)
        /\ frame' = [frame EXCEPT ![p] =
                        [name |-> f.name, args |-> f.args, seq |-> ncalls + 1,
                         result |-> "pending", err |-> "none", out |-> <<>>,
                         writes |-> <<>>]]
    /\ pc' = [pc EXCEPT ![p] = "read_line"]
    /\ port' = [port EXCEPT ![p] = ""]
    /\ ncalls' = ncalls + 1
    /\ UNCHANGED <<env, mem, stdin, session>>

Fatal(p, result, err) ==
    /\ frame' = [frame EXCEPT ![p].result = result, ![p].err = err]
    /\ pc' = [pc EXCEPT ![p] = PcAfter(result)]

\* stdin.read_line returns Err: UnexpectedEof exits with status 0, any other
\* kind is a host-I/O failure.
ReadLineError(p) ==
    /\ pc[p] = "read_line"
    /\ \E kind \in {"UnexpectedEof", "Other"} :
        IF kind = "UnexpectedEof" THEN Fatal(p, "exit", "none")
        ELSE Fatal(p, "hostio", "StdinError")
    /\ UNCHANGED <<env, mem, port, stdin, session, ncalls>>

\* What read_line appends to the port string: the next line, or nothing at
\* end of input, where it returns Ok(0).
LineRead(in) == IF in = <<>> THEN "" ELSE Head(in)

\* The port string after read_line has appended to it.
Appended(buffer, in) == buffer \o LineRead(in)

ParentPort_Kept(buffer) == buffer
\* Line 216: the parent replaces its port string by a new, empty one.
ParentPort(buffer) == ""

FreeChild(children) == {c \in children : pc[c] = "none"}

\* stdin.read_line returns Ok and libc::fork() returns -1.
ForkFails(p) ==
    /\ pc[p] = "read_line"
    /\ Fatal(p, "hostio", "ForkFailed")
    /\ port' = [port EXCEPT ![p] = Appended(port[p], stdin)]
    /\ stdin' = IF stdin = <<>> THEN stdin ELSE Tail(stdin)
    /\ UNCHANGED <<env, mem, session, ncalls>>

\* stdin.read_line returns Ok and libc::fork() succeeds: the child leaves the
\* loop with the port string, the parent empties it and reads again.
Fork(p, children) ==
    /\ pc[p] = "read_line"
    /\ FreeChild(children) # {}
    /\ LET c == CHOOSE x \in FreeChild(children) :
                    \A y \in FreeChild(children) : x <= y
       IN  /\ pc' = [pc EXCEPT ![c] = "connect"]
           /\ env' = [env EXCEPT ![c] = env[p]]
           /\ mem' = [mem EXCEPT ![c] = mem[p]]
           /\ frame' = [frame EXCEPT ![c] = frame[p]]
           /\ port' = [port EXCEPT ![c] = Appended(port[p], stdin),
                                    ![p] = ParentPort(Appended(port[p], stdin))]
    /\ stdin' = IF stdin = <<>> THEN stdin ELSE Tail(stdin)
    /\ UNCHANGED <<session, ncalls>>

\* TcpStream::connect fails.
ConnectFails(p) ==
    /\ pc[p] = "connect"
    /\ Fatal(p, "hostio", "BootstrapIOFailure")
    /\ UNCHANGED <<env, mem, port, stdin, session, ncalls>>

\* The child connects, reads the controller's stream (which may break off)
\* and, when ready_hostio returns Ok, runs the body of the pending call.
Connect(p) ==
    /\ pc[p] = "connect"
    /\ port[p] # ""
    /\ \E d \in Sessions, checked \in BOOLEAN :
        \E cut \in Cuts(WireOf[d]) :
            \E b \in {Bootstrap(env[p], port[p], SubSeq(WireOf[d], 1, cut), checked)} :
            \E r \in {IF b.result = "ok" THEN Serve(frame[p], b.env, mem[p], checked)
                      ELSE Ret(b.env, mem[p], b.result, b.err, <<>>, <<>>)} :
                /\ env' = [env EXCEPT ![p] = r.env]
                /\ mem' = [mem EXCEPT ![p] = r.mem]
                /\ frame' = [frame EXCEPT ![p] = Done(frame[p], frame[p].seq, r)]
                /\ pc' = [pc EXCEPT ![p] = PcAfter(r.result)]
                /\ session' = [session EXCEPT ![p] = d]
    /\ UNCHANGED <<port, stdin, ncalls>>

\* One session: the pre-fork process and the children it forks.
Next ==
    \E p \in Procs :
        \/ HostCall(p, CallsOf(p))
        \/ EnterReadyHostio(p, CallsOf(p))
        \/ ReadLineError(p)
        \/ ForkFails(p)
        \/ Fork(p, 1..MaxChildren)
        \/ ConnectFails(p)
        \/ Connect(p)

Spec == Init /\ [][Next]_vars

(***************************************************************************)
(* Vocabulary of the properties.                                           *)
(***************************************************************************)
Alive == {p \in Procs : pc[p] # "none"}

GlobalCalls ==
    {"getGlobalStateBytes32", "setGlobalStateBytes32", "getGlobalStateU64",
     "setGlobalStateU64"}
InboxCalls == {"readInboxMessage", "readDelayedInboxMessage"}

\* The failures that end a call inside ready_hostio, before its body.
BootstrapErrs == {"StdinError", "ForkFailed", "BootstrapIOFailure", "BootstrapOverflow"}

\* The last host call of p has returned from its body (not from ready_hostio).
BodyRan(p) ==
    /\ frame[p].result \in {"ok", "hostio", "panic"}
    /\ frame[p].err \notin BootstrapErrs

\* The step completes a host call of p whose ready_hostio did nothing: forks
\* was false, or the call has no ready_hostio line.
Serves(p) ==
    /\ pc[p] = "guest"
    /\ frame'[p].seq = ncalls'
    /\ ncalls' = ncalls + 1
    /\ frame'[p].result # "pending"

\* The value of a 64-bit word is below the number n (n <= 2^31).
Below(w, n) ==
    w[1] = 0 /\ w[2] = 0 /\ w[3] < Limb \div 2 /\ w[3] * Limb + w[4] < n

\* The 32 bytes at ptr lie inside guest memory.
PtrInRange(ptr) == Below(ptr, MemorySize - ChunkSize + 1)

\* The slot vector a global call addresses.
SlotVector(e, name) ==
    IF name \in {"getGlobalStateU64", "setGlobalStateU64"} THEN e.small_globals
    ELSE e.large_globals

\* The inbox map an inbox call consults.
InboxOf(e, name) ==
    IF name = "readInboxMessage" THEN e.sequencer_messages ELSE e.delayed_messages

(***************************************************************************)
(* C1: every global get/set whose 64-bit index word is at or beyond the    *)
(* length of the addressed slot vector ends in the fatal GlobalOutOfBounds *)
(* host-I/O failure.  Stated for the calls that reach the slot lookup:     *)
(* forks false, a declared length of 32 and a source range inside memory   *)
(* for setGlobalStateBytes32.                                              *)
(***************************************************************************)
C1_OutOfBoundsIndexIsFatal ==
    \A p \in Alive :
        (/\ BodyRan(p)
         /\ ~env[p].forks
         /\ frame[p].name \in GlobalCalls
         /\ ~Below(frame[p].args[1], Len(SlotVector(env[p], frame[p].name)))
         /\ frame[p].name = "setGlobalStateBytes32" =>
                /\ frame[p].args[3] = W(ChunkSize)
                /\ PtrInRange(frame[p].args[2]))
        => /\ frame[p].result = "hostio"
           /\ frame[p].err = "GlobalOutOfBounds"

(***************************************************************************)
(* C2: no host call reaches Session State while forks is still true: a     *)
(* call whose body ran leaves forks false.                                 *)
(***************************************************************************)
C2_BootstrapBeforeSessionState ==
    \A p \in Alive :
        (/\ BodyRan(p)
         /\ frame[p].name \in CallNames
         /\ frame[p].name = "resolvePreimage" =>
                /\ frame[p].args[2] = W(ChunkSize)
                /\ frame[p].args[6] = W(ChunkSize)
                /\ PtrInRange(frame[p].args[1]))
        => ~env[p].forks

(***************************************************************************)
(* C3 as claimed: every call with a declared length other than 32 returns  *)
(* success, writes nothing to guest memory and signals zero bytes.         *)
(***************************************************************************)
Malformed(f) ==
    \/ f.name \in {"getGlobalStateBytes32", "setGlobalStateBytes32"}
        /\ f.args[3] # W(ChunkSize)
    \/ f.name \in InboxCalls /\ f.args[4] # W(ChunkSize)
    \/ f.name = "resolvePreimage"
        /\ (f.args[2] # W(ChunkSize) \/ f.args[6] # W(ChunkSize))

\* The byte-count word a read call reports: none for the global calls.
ZeroCount(name) ==
    IF name \in InboxCalls THEN << <<5, W(0)>> >>
    ELSE IF name = "resolvePreimage" THEN << <<7, W(0)>> >>
    ELSE <<>>

C3_MalformedLengthDoesNothing ==
    \A p \in Alive :
        (BodyRan(p) /\ Malformed(frame[p]))
        => /\ frame[p].result = "ok"
           /\ frame[p].writes = <<>>
           /\ frame[p].out = ZeroCount(frame[p].name)

(***************************************************************************)
(* C3 as amended: served with forks false (or, for resolvePreimage, in     *)
(* either state), setGlobalStateBytes32, readInboxMessage,                 *)
(* readDelayedInboxMessage and resolvePreimage with a declared length      *)
(* other than 32 return success, leave Session State and guest memory      *)
(* unchanged, and the read calls report a byte count of 0.                 *)
(* getGlobalStateBytes32 is not such a call: for a slot index below the    *)
(* vector length and a destination inside memory it succeeds and writes    *)
(* the first min(dest len, 32) bytes of the slot.                          *)
(***************************************************************************)
C3_MalformedLengthAmended ==
    [][\A p \in Procs :
        (Serves(p) /\ Malformed(frame'[p])) =>
            LET f == frame'[p]
                n == IF Below(f.args[3], ChunkSize) THEN f.args[3][4] ELSE ChunkSize
            IN  IF f.name = "getGlobalStateBytes32"
                THEN (/\ Below(f.args[1], Len(env[p].large_globals))
                      /\ Below(f.args[2], MemorySize - n + 1))
                     => /\ f.result = "ok"
                        /\ env'[p] = env[p]
                        /\ f.writes = << <<f.args[2],
                              SubSeq(env[p].large_globals[f.args[1][4] + 1], 1, n)>> >>
                        /\ \A i \in 1..MemorySize :
                              mem'[p][i] =
                                IF i > f.args[2][4] /\ i <= f.args[2][4] + n
                                THEN env[p].large_globals[f.args[1][4] + 1][i - f.args[2][4]]
                                ELSE mem[p][i]
                ELSE /\ f.result = "ok"
                     /\ env'[p] = env[p]
                     /\ mem'[p] = mem[p]
                     /\ f.writes = <<>>
                     /\ f.out = ZeroCount(f.name)]_vars

\* A readInboxMessage with a declared length of 8 for an index absent from
\* the map has been served and has returned success.
C3_Witness ==
    \E p \in Alive :
        /\ BodyRan(p)
        /\ ~env[p].forks
        /\ frame[p].name = "readInboxMessage"
        /\ frame[p].args[4] = W(8)
        /\ frame[p].args[1] \notin DOMAIN env[p].sequencer_messages
        /\ frame[p].result = "ok"

(***************************************************************************)
(* C4 as claimed: for a message present in the consulted map, dest len 32  *)
(* and a destination inside memory, a read at any 64-bit offset at or      *)
(* beyond the message length succeeds with byte count 0, and a read at an  *)
(* offset below the length writes exactly min(32, length - offset) bytes   *)
(* of the message from that offset and reports that count in word 5.       *)
(***************************************************************************)
\* The inbox read of p that the claim is about, its message and its offset.
InboxRead(p) ==
    /\ BodyRan(p)
    /\ ~env[p].forks
    /\ frame[p].name \in InboxCalls
    /\ frame[p].args[4] = W(ChunkSize)
    /\ frame[p].args[1] \in DOMAIN InboxOf(env[p], frame[p].name)
    /\ PtrInRange(frame[p].args[3])

\* The call succeeded, reported `count` bytes and put the message's bytes
\* from `from` on at the destination.
Delivered(p, bytes, from, count, slot, ptr) ==
    /\ frame[p].result = "ok"
    /\ frame[p].out = << <<slot, W(count)>> >>
    /\ Len(frame[p].writes) = 1
    /\ frame[p].writes[1][1] = ptr
    /\ Len(frame[p].writes[1][2]) = count
    /\ \A i \in 1..count :
          /\ mem[p][ptr[4] + i] = bytes[from + i]
          /\ frame[p].writes[1][2][i] = bytes[from + i]

C4_InboxReadAnyOffset ==
    \A p \in Alive :
        InboxRead(p) =>
            LET message == InboxOf(env[p], frame[p].name)[frame[p].args[1]]
                offset == frame[p].args[2]
            IN  IF Below(offset, Len(message))
                THEN Delivered(p, message, offset[4],
                               Min(ChunkSize, Len(message) - offset[4]), 5,
                               frame[p].args[3])
                ELSE Delivered(p, message, 0, 0, 5, frame[p].args[3])

(***************************************************************************)
(* C4 as amended: the same, for offsets below 2^32; an offset of 2^32 or   *)
(* more is the fatal BadOffset failure and writes nothing.                 *)
(***************************************************************************)
C4_InboxReadAmended ==
    \A p \in Alive :
        InboxRead(p) =>
            LET message == InboxOf(env[p], frame[p].name)[frame[p].args[1]]
                offset == frame[p].args[2]
            IN  IF Below(offset, Len(message))
                THEN Delivered(p, message, offset[4],
                               Min(ChunkSize, Len(message) - offset[4]), 5,
                               frame[p].args[3])
                ELSE IF offset[1] = 0 /\ offset[2] = 0
                THEN Delivered(p, message, 0, 0, 5, frame[p].args[3])
                ELSE /\ frame[p].result = "hostio"
                     /\ frame[p].err = "BadOffset"
                     /\ frame[p].writes = <<>>

\* A read at offset 32 of a 40-byte message has returned its last 8 bytes.
C4_Witness ==
    \E p \in Alive :
        /\ InboxRead(p)
        /\ frame[p].args[2] = W(ChunkSize)
        /\ Len(InboxOf(env[p], frame[p].name)[frame[p].args[1]]) = 40
        /\ frame[p].out = << <<5, W(8)>> >>

(***************************************************************************)
(* C5: an inbox read with dest len 32 of an index absent from the          *)
(* consulted map is fatal, with MissingMessage exactly when the index is   *)
(* below first_too_far and MessageTooFar exactly when it is not, and       *)
(* writes nothing to guest memory.                                         *)
(***************************************************************************)
AbsentRead(p) ==
    /\ BodyRan(p)
    /\ ~env[p].forks
    /\ frame[p].name \in InboxCalls
    /\ frame[p].args[4] = W(ChunkSize)
    /\ frame[p].args[1] \notin DOMAIN InboxOf(env[p], frame[p].name)

C5_AbsentMessageKinds ==
    \A p \in Alive :
        AbsentRead(p) =>
            /\ frame[p].result = "hostio"
            /\ frame[p].err \in {"MissingMessage", "MessageTooFar"}
            /\ frame[p].err = "MissingMessage"
                  <=> LtU64(frame[p].args[1], env[p].first_too_far)
            /\ frame[p].writes = <<>>
            /\ frame[p].out = <<>>

\* A read of the absent index first_too_far itself has failed.
C5_Witness ==
    \E p \in Alive :
        /\ AbsentRead(p)
        /\ frame[p].args[1] = env[p].first_too_far
        /\ frame[p].err = "MessageTooFar"

ResolveStep(p) ==
    /\ Serves(p)
    /\ frame'[p].name = "resolvePreimage"
    /\ frame'[p].args[2] = W(ChunkSize)
    /\ frame'[p].args[6] = W(ChunkSize)
    /\ PtrInRange(frame'[p].args[1])

HashAt(m, ptr) == SubSeq(m, ptr[4] + 1, ptr[4] + ChunkSize)

C7_UnknownHashIsFatal ==
    [][\A p \in Procs :
        (/\ ResolveStep(p)
         /\ HashAt(mem[p], frame'[p].args[1]) \notin DOMAIN env[p].preimages)
        => /\ frame'[p].result = "hostio"
           /\ frame'[p].err = "MissingPreimage"
           /\ frame'[p].writes = <<>>
           /\ frame'[p].out = <<>>
           /\ mem'[p] = mem[p]]_vars

\* A lookup of an unknown hash at offset 2^32 has failed as MissingPreimage.
C7_Witness ==
    \E p \in Alive :
        /\ frame[p].name = "resolvePreimage"
        /\ frame[p].args[4] = Two32
        /\ frame[p].err = "MissingPreimage"
        /\ HashAt(mem[p], frame[p].args[1]) \notin DOMAIN env[p].preimages

(***************************************************************************)
(* C8: for a hash present in preimages, the chunks resolvePreimage returns *)
(* at offsets 0, 32, 64, ... up to the first empty one, concatenated, are  *)
(* the stored blob; a repeated call returns the same bytes and count, and  *)
(* no call changes Session State.  Stated of every process whose guest is  *)
(* running, for the calls it can make next.                                *)
(***************************************************************************)
ResolveArgs(hash_ptr, offset, out_ptr) ==
    <<hash_ptr, W(ChunkSize), W(0), W(offset), out_ptr, W(ChunkSize)>>

\* The bytes a guest gathers from session state e and memory m by calling
\* resolvePreimage at offset, offset + 32, ... until a call returns no bytes;
\* <<-1>> is appended when a call fails, changes Session State or does not
\* repeat.
RECURSIVE Gather(_, _, _, _, _)
Gather(e, m, hash_ptr, out_ptr, offset) ==
    LET r == resolve_preimage(e, m, ResolveArgs(hash_ptr, offset, out_ptr))
        again == resolve_preimage(r.env, r.mem, ResolveArgs(hash_ptr, offset, out_ptr))
    IN  IF \/ r.result # "ok"
           \/ r.env # e
           \/ Len(r.writes) # 1
           \/ r.out # << <<7, W(Len(r.writes[1][2]))>> >>
           \/ again.out # r.out \/ again.writes # r.writes \/ again.mem # r.mem
        THEN <<-1>>
        ELSE IF r.writes[1][2] = <<>> THEN <<>>
        ELSE r.writes[1][2] \o Gather(r.env, r.mem, hash_ptr, out_ptr, offset + ChunkSize)

C8_ChunksReassembleBlob ==
    \A p \in {q \in Alive : pc[q] = "guest"} :
        \A ptrs \in {<<W(0), LastPtr>>, <<LastPtr, W(0)>>} :
            (/\ pc[p] = "guest"
             /\ HashAt(mem[p], ptrs[1]) \in DOMAIN env[p].preimages)
            => Gather(env[p], mem[p], ptrs[1], ptrs[2], 0)
                  = env[p].preimages[HashAt(mem[p], ptrs[1])]

\* A call at offset 32 has returned the last 8 bytes of a 40-byte blob that
\* is still addressed by the hash in memory.
C8_Witness ==
    \E p \in Alive :
        /\ frame[p].name = "resolvePreimage"
        /\ frame[p].result = "ok"
        /\ frame[p].args[4] = W(ChunkSize)
        /\ frame[p].out = << <<7, W(8)>> >>
        /\ HashAt(mem[p], frame[p].args[1]) \in DOMAIN env[p].preimages
        /\ Len(env[p].preimages[HashAt(mem[p], frame[p].args[1])]) = 40

(***************************************************************************)
(* C9: after a successful bootstrap whose sequencer stream carried n       *)
(* messages and whose delayed stream carried m, sequencer_messages has     *)
(* exactly the keys inbox_position .. inbox_position+n-1 and               *)
(* delayed_messages exactly delayed_position .. delayed_position+m-1, each *)
(* mapped to the message received at that place, and nothing else.         *)
(***************************************************************************)
KeyAt(base, k) == AddU64(base, W(k - 1)).val

MapIs(map, base, msgs) ==
    /\ DOMAIN map = {KeyAt(base, k) : k \in 1..Len(msgs)}
    /\ \A k \in 1..Len(msgs) : map[KeyAt(base, k)] = msgs[k]

Bootstrapped(p) == env[p].socket # "None"

C9_BootstrapBuildsInboxes ==
    \A p \in Alive :
        Bootstrapped(p) =>
            /\ MapIs(env[p].sequencer_messages, session[p].inbox_position,
                     session[p].sequencer)
            /\ MapIs(env[p].delayed_messages, session[p].delayed_position,
                     session[p].delayed)

\* A child has bootstrapped from a stream of two sequencer messages and two
\* delayed messages.
C9_Witness ==
    \E p \in Alive :
        /\ Bootstrapped(p)
        /\ ~env[p].forks
        /\ Len(session[p].sequencer) = 2
        /\ Len(session[p].delayed) = 2
        /\ Cardinality(DOMAIN env[p].sequencer_messages) = 2
        /\ Cardinality(DOMAIN env[p].delayed_messages) = 2

(***************************************************************************)
(* C10: when stdin is at its end while a process waits in read_line, no    *)
(* child is forked, and the process leaves read_line, unless by an I/O     *)
(* error of the read, only by exiting with status 0.                       *)
(***************************************************************************)
C10_EndOfInputExitsCleanly ==
    [][\A p \in Procs :
        (pc[p] = "read_line" /\ stdin = <<>>)
        => /\ \A c \in Procs : pc[c] = "none" => pc'[c] = "none"
           /\ (pc'[p] # "read_line" /\ frame'[p].err # "StdinError")
              => /\ pc'[p] = "exited"
                 /\ frame'[p].result = "exit"]_vars

(***************************************************************************)
(* C11: children forked from one pre-bootstrap parent do not touch each    *)
(* other: a step that changes the Session State of a process already       *)
(* forked is that process's own connect or host call and changes nothing   *)
(* of any other process, and the Session State a child has when its        *)
(* bootstrap succeeds (globals and both inbox maps) is the one its own     *)
(* stream describes.                                                       *)
(***************************************************************************)
SetCalls == {"setGlobalStateU64", "setGlobalStateBytes32"}

\* The processes other than c are left as they are by the step.
OthersUntouched(c) ==
    \A q \in Procs \ {c} :
        /\ env'[q] = env[q]
        /\ mem'[q] = mem[q]
        /\ pc'[q] = pc[q]
        /\ frame'[q] = frame[q]

\* The step is the successful bootstrap of process c.
BootstrapStep(c) == pc[c] = "connect" /\ env'[c].socket # "None"

C11_ChildSessionsAreIndependent ==
    [][\A c \in Procs :
        /\ (pc[c] # "none" /\ env'[c] # env[c])
           => (pc[c] \in {"connect", "guest"} /\ OthersUntouched(c))
        /\ BootstrapStep(c)
           => /\ MapIs(env'[c].sequencer_messages, session'[c].inbox_position,
                       session'[c].sequencer)
              /\ MapIs(env'[c].delayed_messages, session'[c].delayed_position,
                       session'[c].delayed)
              /\ frame'[c].name \notin SetCalls
                 => /\ env'[c].small_globals =
                          <<session'[c].inbox_position,
                            session'[c].position_within_message>>
                    /\ env'[c].large_globals =
                          <<session'[c].last_block_hash, session'[c].last_send_root>>]_vars

\* Two children of one parent have bootstrapped from different streams.
C11_Witness ==
    \E c1, c2 \in Alive :
        /\ c1 # c2
        /\ Bootstrapped(c1) /\ Bootstrapped(c2)
        /\ session[c1] # session[c2]
        /\ env[c1].sequencer_messages # env[c2].sequencer_messages

(***************************************************************************)
(* C12: once forks is false in a process (after its bootstrap, or from the *)
(* start), no step of it waits for stdin, forks or connects again, and no  *)
(* step changes its socket or either inbox map; its globals change only in *)
(* the body of a set call; a host call it makes leaves stdin, every port   *)
(* string and every connection as they are and creates no process.         *)
(***************************************************************************)
C12_BootstrapRunsAtMostOnce ==
    [][\A p \in Procs :
        (pc[p] # "none" /\ ~env[p].forks)
        => /\ pc'[p] \notin {"read_line", "connect"}
           /\ ~env'[p].forks
           /\ env'[p].socket = env[p].socket
           /\ env'[p].sequencer_messages = env[p].sequencer_messages
           /\ env'[p].delayed_messages = env[p].delayed_messages
           /\ (frame'[p] = frame[p] \/ frame'[p].name \notin SetCalls)
              => /\ env'[p].small_globals = env[p].small_globals
                 /\ env'[p].large_globals = env[p].large_globals
           /\ frame'[p] # frame[p]
              => /\ stdin' = stdin
                 /\ port' = port
                 /\ session' = session
                 /\ \A c \in Procs : pc[c] = "none" => pc'[c] = "none"]_vars

\* A child that has bootstrapped has since been served an inbox read.
C12_Witness ==
    \E p \in Alive :
        /\ p # 0
        /\ Bootstrapped(p)
        /\ frame[p].seq > frame[0].seq
        /\ frame[p].name \in InboxCalls
        /\ frame[p].result = "ok"

(***************************************************************************)
(* C13: a bootstrap run whose stream breaks off anywhere before its end    *)
(* (inside the preamble, inside either message stream, or just before a    *)
(* terminating flag) ends the triggering host call in a fatal failure with *)
(* forks still true and no socket kept; a run ends with forks false only   *)
(* when the whole stream was read, and then both inbox maps hold every     *)
(* message of the stream.                                                  *)
(***************************************************************************)
\* Every place a stream can break off before its last byte.
AllCuts(d) == 0..(Len(WireOf[d]) - 1)

\* ready_hostio, from the connected socket on, for every truncation of every
\* stream the controller may send.
TruncatedStreamsFail ==
    \A d \in Sessions, checked \in BOOLEAN :
        \A cut \in AllCuts(d) :
            LET b == Bootstrap(InitEnv(TRUE), "8001", SubSeq(WireOf[d], 1, cut), checked)
            IN  /\ b.result \in {"hostio", "panic"}
                /\ b.result = "panic" => checked
                /\ b.env.forks
                /\ b.env.socket = "None"

C13_TruncatedStreamIsFatal ==
    /\ TruncatedStreamsFail
    /\ [][\A p \in Procs :
            (pc[p] = "connect" /\ pc'[p] # "connect")
            => IF env'[p].forks
               THEN /\ pc'[p] \in {"failed", "panicked"}
                    /\ frame'[p].err \in {"BootstrapIOFailure", "BootstrapOverflow"}
                    /\ frame'[p].err = "BootstrapIOFailure"
                       => (frame'[p].result = "hostio" /\ pc'[p] = "failed")
                    /\ env'[p].socket = "None"
                    /\ frame'[p].writes = <<>> /\ frame'[p].out = <<>>
                    /\ mem'[p] = mem[p]
               ELSE /\ env'[p].socket = port[p]
                    /\ frame'[p].err \notin {"BootstrapIOFailure", "BootstrapOverflow"}
                    /\ MapIs(env'[p].sequencer_messages, session'[p].inbox_position,
                             session'[p].sequencer)
                    /\ MapIs(env'[p].delayed_messages, session'[p].delayed_position,
                             session'[p].delayed)]_vars

\* A child's stream broke off inside a message stream: the call has failed,
\* the globals are already those of the stream, and forks is still true.
C13_Witness ==
    \E p \in Alive :
        /\ pc[p] = "failed"
        /\ frame[p].err = "BootstrapIOFailure"
        /\ env[p].forks
        /\ env[p].small_globals =
              <<session[p].inbox_position, session[p].position_within_message>>
        /\ env[p].small_globals # InitEnv(TRUE).small_globals

(***************************************************************************)
(* C14: the inbox reader's outcome is decided by the first failing check   *)
(* in the order: declared length, presence of the message, destination     *)
(* range, offset.                                                          *)
(***************************************************************************)
\* An inbox read served with forks false.
InboxServed(p) ==
    /\ BodyRan(p)
    /\ ~env[p].forks
    /\ frame[p].name \in InboxCalls

\* The call of p failed with the host-I/O failure `kind` and wrote nothing.
FailedWith(p, kind) ==
    /\ frame[p].result = "hostio"
    /\ frame[p].err = kind
    /\ frame[p].writes = <<>>
    /\ frame[p].out = <<>>

C14_ChecksInOrder ==
    \A p \in Alive :
        InboxServed(p) =>
            LET f == frame[p]
                inbox == InboxOf(env[p], f.name)
            IN  IF f.args[4] # W(ChunkSize)
                THEN /\ f.result = "ok"
                     /\ f.out = << <<5, W(0)>> >>
                     /\ f.writes = <<>>
                ELSE IF f.args[1] \notin DOMAIN inbox
                THEN FailedWith(p, AbsentKind(f.args[1], env[p].first_too_far))
                ELSE IF ~PtrInRange(f.args[3])
                THEN FailedWith(p, "UnknownMessageType")
                ELSE IF ~FitsU32(f.args[2])
                THEN FailedWith(p, "BadOffset")
                ELSE f.result = "ok"

(***************************************************************************)
(* C15: an inbox read with dest len 32 of a present message whose 32-byte  *)
(* destination range does not lie inside guest memory fails with           *)
(* UnknownMessageType and writes nothing, for every 64-bit pointer.        *)
(***************************************************************************)
C15_OutOfRangeDestinationIsFatal ==
    \A p \in Alive :
        (/\ InboxServed(p)
         /\ frame[p].args[4] = W(ChunkSize)
         /\ frame[p].args[1] \in DOMAIN InboxOf(env[p], frame[p].name)
         /\ ~PtrInRange(frame[p].args[3]))
        => FailedWith(p, "UnknownMessageType")

(***************************************************************************)
(* C16: once forks is false, no host call changes sequencer_messages,      *)
(* delayed_messages, preimages or first_too_far; the get, read-inbox and   *)
(* resolve-preimage calls leave all of Session State unchanged and the set *)
(* calls change nothing but the slots of their own global vector.          *)
(***************************************************************************)
\* Session State e2 differs from e in at most the field of the set call.
OnlyGlobalsChange(name, e, e2) ==
    /\ e2 = [e EXCEPT !.small_globals = e2.small_globals,
                      !.large_globals = e2.large_globals]
    /\ name = "setGlobalStateU64" => e2.large_globals = e.large_globals
    /\ name = "setGlobalStateBytes32" => e2.small_globals = e.small_globals

C16_HostCallsKeepInputs ==
    [][\A p \in Procs :
        (pc[p] # "none" /\ ~env[p].forks) =>
            /\ env'[p].sequencer_messages = env[p].sequencer_messages
            /\ env'[p].delayed_messages = env[p].delayed_messages
            /\ env'[p].preimages = env[p].preimages
            /\ env'[p].first_too_far = env[p].first_too_far
            /\ IF frame'[p] # frame[p] /\ frame'[p].name \in SetCalls
               THEN OnlyGlobalsChange(frame'[p].name, env[p], env'[p])
               ELSE env'[p] = env[p]]_vars

\* A second host call, a set call that changed a slot, of a process that
\* holds inbox messages and preimages.
C16_Witness ==
    \E p \in Alive :
        /\ ~env[p].forks
        /\ frame[p].seq = 2
        /\ frame[p].name = "setGlobalStateU64"
        /\ frame[p].result = "ok"
        /\ frame[p].args[2] = MaxU64
        /\ MaxU64 \in {env[p].small_globals[i] : i \in 1..Len(env[p].small_globals)}
        /\ DOMAIN env[p].sequencer_messages # {}
        /\ DOMAIN env[p].preimages # {}

(***************************************************************************)
(* C17: the preamble is read from the stream in the order inbox position,  *)
(* position within message, last block hash, last send root, delayed       *)
(* position; a successful bootstrap leaves small_globals = [inbox          *)
(* position, position within message] and large_globals = [last block      *)
(* hash, last send root] as received, slot 0 of small_globals being the    *)
(* base inbox position and not the counter advanced per message, and the   *)
(* delayed position is the first key of delayed_messages and nothing else. *)
(***************************************************************************)
\* The five fields of the preamble at their byte positions in stream w.
PreambleOf(w) ==
    [inbox_position |-> socket_read_u64(w, 0).val,
     position_within_message |-> socket_read_u64(w, 8).val,
     last_block_hash |-> socket_read_bytes32(w, 16).val,
     last_send_root |-> socket_read_bytes32(w, 48).val,
     delayed_position |-> socket_read_u64(w, 80).val]

\* The globals of e are those of preamble h, and the delayed position is
\* the first delayed key when there is a delayed message.
GlobalsAre(e, h, delayed) ==
    /\ e.small_globals = <<h.inbox_position, h.position_within_message>>
    /\ e.large_globals = <<h.last_block_hash, h.last_send_root>>
    /\ delayed # <<>> => /\ h.delayed_position \in DOMAIN e.delayed_messages
                         /\ \A k \in DOMAIN e.delayed_messages :
                                ~LtU64(k, h.delayed_position)

\* The fields of every session are at these positions of its stream.
PreambleKept ==
    \A d \in Sessions :
        PreambleOf(WireOf[d]) =
            [inbox_position |-> d.inbox_position,
             position_within_message |-> d.position_within_message,
             last_block_hash |-> d.last_block_hash,
             last_send_root |-> d.last_send_root,
             delayed_position |-> d.delayed_position]

C17_GlobalsAreThePreamble ==
    /\ PreambleKept
    /\ [][\A c \in Procs :
            BootstrapStep(c) =>
                LET h == PreambleOf(WireOf[session'[c]])
                    f == frame'[c]
                IN  /\ f.name \notin SetCalls
                       => GlobalsAre(env'[c], h, session'[c].delayed)
                    /\ (f.name = "getGlobalStateU64" /\ f.args[1] = W(0))
                       => f.out = << <<1, h.inbox_position>> >>]_vars

\* A child bootstrapped from a stream with two sequencer messages reads
\* slot 0 and gets the base inbox position, which differs from the counter
\* after ingestion and from the delayed position.
C17_Witness ==
    \E c \in Alive :
        /\ Bootstrapped(c)
        /\ pc[c] = "guest"
        /\ Len(session[c].sequencer) = 2
        /\ frame[c].name = "getGlobalStateU64"
        /\ frame[c].out = << <<1, session[c].inbox_position>> >>
        /\ env[c].small_globals[1] = session[c].inbox_position
        /\ env[c].small_globals[1] # KeyAt(session[c].inbox_position, 3)
        /\ session[c].delayed_position \notin
               {env[c].small_globals[1], env[c].small_globals[2]}
        /\ session[c].delayed_position \in DOMAIN env[c].delayed_messages

(***************************************************************************)
(* C18: each port line the fork loop reads from stdin produces exactly one *)
(* child, which leaves the loop holding the port of that line only and     *)
(* bootstraps with it; the parent does not connect, keeps its Session      *)
(* State with forks true, empties its port string and waits for the next   *)
(* line.                                                                   *)
(***************************************************************************)
\* Process p, waiting in read_line, consumes a port line in this step.
ReadsPortLine(p) ==
    /\ pc[p] = "read_line"
    /\ stdin # <<>>
    /\ stdin' = Tail(stdin)

NewChildren == {c \in Procs : pc[c] = "none" /\ pc'[c] # "none"}

\* The step forks exactly one child of p for the line at the head of stdin.
ForksOneChild(p) ==
    /\ \E c \in Procs \ {p} :
        /\ NewChildren = {c}
        /\ pc'[c] = "connect"
        /\ port'[c] = Head(stdin)
        /\ env'[c] = env[p]
    /\ env'[p] = env[p]
    /\ env'[p].forks
    /\ env'[p].socket = "None"
    /\ pc'[p] = "read_line"
    /\ port'[p] = ""

\* A forked child keeps its port string and connects to that port only; a
\* process in the loop never goes on to connect.
ChildUsesItsPort ==
    \A c \in Procs :
        /\ pc[c] \in {"connect", "guest"} => port'[c] = port[c]
        /\ BootstrapStep(c) => env'[c].socket = port[c]
        /\ pc[c] = "read_line" => pc'[c] # "connect"

C18_EachLineForksOneChild ==
    [][/\ \A p \in Procs : ReadsPortLine(p) => ForksOneChild(p)
       /\ ChildUsesItsPort]_vars

\* C18 as it holds: the same when the duplication succeeds; when it fails
\* the line produces no child and the call of the parent fails.
C18_EachLineForksOneChildAmended ==
    [][/\ \A p \in Procs :
            ReadsPortLine(p) =>
                IF frame'[p].err = "ForkFailed"
                THEN /\ NewChildren = {}
                     /\ pc'[p] = "failed"
                     /\ frame'[p].result = "hostio"
                     /\ env' = env
                ELSE ForksOneChild(p)
       /\ ChildUsesItsPort]_vars

\* Two lines have been read: each child holds its own line, the first has
\* bootstrapped with it, and the parent waits at the end of stdin unchanged.
C18_Witness ==
    \E p \in Alive : \E c1, c2 \in Alive \ {p} :
        /\ pc[p] = "read_line"
        /\ env[p] = InitEnv(TRUE)
        /\ port[p] = ""
        /\ stdin = <<>>
        /\ port[c1] = "8001" /\ port[c2] = "8002"
        /\ env[c1].socket = "8001"
        /\ pc[c2] = "connect"

(***************************************************************************)
(* C19: a successful setGlobalStateU64 or setGlobalStateBytes32 on slot i  *)
(* changes only slot i of its vector and no slot of the other vector, and  *)
(* once forks is false both vectors keep their length under every host     *)
(* call.                                                                   *)
(***************************************************************************)
\* Vectors v and v2 have the same length and agree outside slot i, a 64-bit
\* index.
SameButSlot(v, v2, i) ==
    /\ Len(v2) = Len(v)
    /\ \A j \in 1..Len(v) : W(j - 1) # i => v2[j] = v[j]

C19_SetChangesOnlyItsSlot ==
    [][\A p \in Procs :
        (pc[p] # "none" /\ ~env[p].forks) =>
            /\ Len(env'[p].small_globals) = Len(env[p].small_globals)
            /\ Len(env'[p].large_globals) = Len(env[p].large_globals)
            /\ (Serves(p) /\ frame'[p].result = "ok") =>
                 /\ frame'[p].name = "setGlobalStateU64" =>
                      /\ SameButSlot(env[p].small_globals, env'[p].small_globals,
                                     frame'[p].args[1])
                      /\ env'[p].large_globals = env[p].large_globals
                 /\ frame'[p].name = "setGlobalStateBytes32" =>
                      /\ SameButSlot(env[p].large_globals, env'[p].large_globals,
                                     frame'[p].args[1])
                      /\ env'[p].small_globals = env[p].small_globals]_vars
====
